---- MODULE Spec2Model ----
(***************************************************************************)
(* Model of youtube-search-results: the Ingestor (worker/main.go) polls    *)
(* the search API and persists batches asynchronously into the keyword's   *)
(* collection; the Query Service (server/main.go) validates a keyword      *)
(* against a process-local cache and answers paginated reads.              *)
(***************************************************************************)
EXTENDS Integers, Sequences, FiniteSets, TLC

(* ------------------------------ bounds --------------------------------- *)
MaxVideo == 2          \* distinct youtube ids the search API can return
MaxBatch == 2          \* items per API response
MaxDocs == 3           \* documents a collection can hold in the model
NTasks == 2            \* persist goroutines in flight at once
MaxUndecodable == 1    \* rows of one cursor whose decode fails
MaxPage == 2           \* largest page number a client sends
MaxLimitArg == 2       \* largest limit a client sends
MaxTime == 4           \* clock ticks the model distinguishes
TicksPerSecond == 2    \* resolution of the clock: ticks in one second
MaxCreateCalls == 2    \* saturation of the createIndexes call counter

(* --------------------------- program constants ------------------------- *)
pollInterval == 1                     \* POLL_INTERVAL, in seconds
SearchTerm == "music"                 \* os.Args[1], docker-compose command
Keywords == {"music", "news"}         \* keywords a client may ask for
AllIndexes == {"publishedAt", "text", "youtubeId"}

Videos == 1..MaxVideo
Tasks == 1..NTasks
Handlers == {"h1", "h2"}              \* request handlers in progress at once

VARIABLES
  wpc,                  \* position of the poll loop of worker main()
  lastFetchedTime,      \* worker main(): var lastFetchedTime
  now,                  \* wall clock
  since,                \* argument `since` of the fetchVideos call in flight
  issuedAt,             \* when the latest search call was issued (-1: none yet)
  tasks,                \* the saveVideosToDB goroutines
  sExistingCollections, \* Service.existingCollections of the worker
  db,                   \* the search term's collection in the store
  createCalls,          \* number of createIndexes executions so far
  existingCollections,  \* server: var existingCollections
  handlers,             \* the getVideos request handlers in progress
  resp                  \* the HTTP response written by the step just taken

wvars == <<wpc, lastFetchedTime, now, since, issuedAt, tasks>>
svars == <<existingCollections, handlers, resp>>
vars == <<wpc, lastFetchedTime, now, since, issuedAt, tasks, sExistingCollections, db,
          createCalls, existingCollections, handlers, resp>>

Min(a, b) == IF a < b THEN a ELSE b

\* since.Format(time.RFC3339): the time in whole seconds, the fraction dropped
FormatRFC3339(t) == t \div TicksPerSecond
\* the instant an RFC3339 string denotes, in ticks
ParseRFC3339(sec) == sec * TicksPerSecond
\* the PublishedAfter parameter of the search call in flight
publishedAfter == FormatRFC3339(since)

(* ------------------------------- store --------------------------------- *)
\* publishedAt of a video; video 1 carries an unparsable date (zero time)
PublishedAt(v) == v \div 2

RECURSIVE SetToSeq(_)
SetToSeq(S) ==
  IF S = {} THEN <<>>
  ELSE LET m == CHOOSE x \in S : \A y \in S : x <= y
       IN <<m>> \o SetToSeq(S \ {m})

Range(s) == {s[i] : i \in 1..Len(s)}

NoDuplicates(docs) == \A i, j \in 1..Len(docs) : docs[i] = docs[j] => i = j

ListCollectionNames(d) == IF d.exists THEN {SearchTerm} ELSE {}

keywordExistsIn(keyword, list) == \E c \in list : c = keyword

\* Indexes().CreateMany: builds the three indexes (creating the collection);
\* a unique index cannot be built over documents that already collide.
CreateMany(d) ==
  IF NoDuplicates(d.docs)
  THEN [exists |-> TRUE, indexes |-> AllIndexes, docs |-> d.docs]
  ELSE d

\* InsertMany with SetOrdered(false): every document is attempted; one that
\* violates the unique index is skipped, the others are written.
RECURSIVE InsertUnordered(_, _, _)
InsertUnordered(docs, batch, unique) ==
  IF batch = <<>> THEN docs
  ELSE LET v == Head(batch)
           next == IF unique /\ v \in Range(docs) THEN docs ELSE Append(docs, v)
       IN InsertUnordered(next, Tail(batch), unique)

InsertMany(d, videos) ==
  [exists |-> TRUE, indexes |-> d.indexes,
   docs |-> InsertUnordered(d.docs, SetToSeq(videos), "youtubeId" \in d.indexes)]

(* ------------------------------ Ingestor ------------------------------- *)
Batches == {B \in SUBSET Videos : B # {} /\ Cardinality(B) <= MaxBatch}

IdleTask == [pc |-> "idle", videos |-> {}, collections |-> {}]
IdleHandler == [pc |-> "idle", keyword |-> "", collections |-> {}, existed |-> FALSE]
NoResp == [status |-> 0, line |-> 0, keyword |-> "", page |-> 0, limit |-> 0,
           search |-> "", result |-> <<>>, next |-> <<>>, prev |-> <<>>]

Init ==
  /\ wpc = "fetch"
  /\ lastFetchedTime = 0
  /\ now = 0
  /\ since = 0
  /\ issuedAt = -1
  /\ tasks = [t \in Tasks |-> IdleTask]
  /\ sExistingCollections = {}
  /\ db = [exists |-> FALSE, indexes |-> {}, docs |-> <<>>]
  /\ createCalls = 0
  /\ existingCollections = {}
  /\ handlers = [h \in Handlers |-> IdleHandler]
  /\ resp = NoResp

\* variant of fetchVideos that passes the current time as `since`
fetchVideosSinceNow ==
  /\ wpc = "fetch"
  /\ since' = now
  /\ issuedAt' = now
  /\ wpc' = "await"
  /\ UNCHANGED <<svars, lastFetchedTime, now, tasks, sExistingCollections, db, createCalls>>

\* main: s.fetchVideos(searchTerm, lastFetchedTime) issues the search call
fetchVideos ==
  /\ wpc = "fetch"
  /\ since' = lastFetchedTime
  /\ issuedAt' = now
  /\ wpc' = "await"
  /\ UNCHANGED <<svars, lastFetchedTime, now, tasks, sExistingCollections, db, createCalls>>

\* call.Do() failed: the error is logged, response is nil and the range over
\* response.Items dereferences it: the process panics.
fetchFailed ==
  /\ wpc = "await"
  /\ wpc' = "crashed"
  /\ \E d \in 0..TicksPerSecond : now' = Min(now + d, MaxTime)
  /\ UNCHANGED <<svars, lastFetchedTime, since, issuedAt, tasks, sExistingCollections, db, createCalls>>

\* call.Do() succeeded with `videos`; main launches the persist goroutine
\* when numVideos != 0 and goes on to record the time.
fetchReturned ==
  /\ wpc = "await"
  /\ \E videos \in Batches \cup {{}} :
       IF videos # {}
       THEN \E t \in Tasks :
              /\ tasks[t].pc = "idle"
              /\ \A u \in Tasks : u < t => tasks[u].pc # "idle"
              /\ tasks' = [tasks EXCEPT ![t] = [pc |-> "exists", videos |-> videos, collections |-> {}]]
       ELSE tasks' = tasks
  /\ \E d \in 0..TicksPerSecond : now' = Min(now + d, MaxTime)
  /\ wpc' = "record"
  /\ UNCHANGED <<svars, lastFetchedTime, since, issuedAt, sExistingCollections, db, createCalls>>

\* main: lastFetchedTime = time.Now()
recordTime ==
  /\ wpc = "record"
  /\ lastFetchedTime' = now
  /\ wpc' = "sleep"
  /\ UNCHANGED <<svars, now, since, issuedAt, tasks, sExistingCollections, db, createCalls>>

\* main: time.Sleep(pollInterval seconds)
sleep ==
  /\ wpc = "sleep"
  /\ now' = Min(now + pollInterval * TicksPerSecond, MaxTime)
  /\ wpc' = "fetch"
  /\ UNCHANGED <<svars, lastFetchedTime, since, issuedAt, tasks, sExistingCollections, db, createCalls>>

Alive == wpc # "crashed"

\* collectionExists: first lookup in the cache
collectionExistsCached(t) ==
  /\ Alive /\ tasks[t].pc = "exists"
  /\ tasks' = [tasks EXCEPT ![t].pc =
                 IF keywordExistsIn(SearchTerm, sExistingCollections) THEN "insert" ELSE "list"]
  /\ UNCHANGED <<svars, wpc, lastFetchedTime, now, since, issuedAt, sExistingCollections, db, createCalls>>

\* collectionExists: ListCollectionNames; an error returns false
collectionExistsList(t) ==
  /\ Alive /\ tasks[t].pc = "list"
  /\ \E err \in BOOLEAN :
       tasks' = [tasks EXCEPT ![t] =
                   IF err THEN [@ EXCEPT !.pc = "create"]
                   ELSE [@ EXCEPT !.pc = "refresh", !.collections = ListCollectionNames(db)]]
  /\ UNCHANGED <<svars, wpc, lastFetchedTime, now, since, issuedAt, sExistingCollections, db, createCalls>>

\* collectionExists: s.existingCollections = collections; recheck the local list
collectionExistsRefresh(t) ==
  /\ Alive /\ tasks[t].pc = "refresh"
  /\ sExistingCollections' = tasks[t].collections
  /\ tasks' = [tasks EXCEPT ![t] =
                 [@ EXCEPT !.pc = IF keywordExistsIn(SearchTerm, tasks[t].collections)
                                  THEN "insert" ELSE "create",
                           !.collections = {}]]
  /\ UNCHANGED <<svars, wpc, lastFetchedTime, now, since, issuedAt, db, createCalls>>

\* variant of createIndexes that ends the process on a failure (log.Fatal)
createIndexesFatal(t) ==
  /\ Alive /\ tasks[t].pc = "create"
  /\ \E err \in BOOLEAN :
       /\ db' = IF err THEN db ELSE CreateMany(db)
       /\ wpc' = IF err THEN "crashed" ELSE wpc
  /\ createCalls' = Min(createCalls + 1, MaxCreateCalls)
  /\ tasks' = [tasks EXCEPT ![t].pc = "insert"]
  /\ UNCHANGED <<svars, lastFetchedTime, now, since, issuedAt, sExistingCollections>>

\* saveVideosToDB: !collectionPreviouslyExists, so createIndexes runs; a
\* failure is logged and the insert follows all the same.
createIndexes(t) ==
  /\ Alive /\ tasks[t].pc = "create"
  /\ \E err \in BOOLEAN : db' = IF err THEN db ELSE CreateMany(db)
  /\ createCalls' = Min(createCalls + 1, MaxCreateCalls)
  /\ tasks' = [tasks EXCEPT ![t].pc = "insert"]
  /\ UNCHANGED <<svars, wpc, lastFetchedTime, now, since, issuedAt, sExistingCollections>>

\* saveVideosToDB: collection.InsertMany(videos, ordered=false)
insertMany(t) ==
  /\ Alive /\ tasks[t].pc = "insert"
  /\ \E err \in BOOLEAN :
       /\ ~err => Len(db.docs) + Cardinality(tasks[t].videos) <= MaxDocs
       /\ db' = IF err THEN db ELSE InsertMany(db, tasks[t].videos)
  /\ tasks' = [tasks EXCEPT ![t] = IdleTask]
  /\ UNCHANGED <<svars, wpc, lastFetchedTime, now, since, issuedAt, sExistingCollections, createCalls>>

saveVideosToDB(t) ==
  \/ collectionExistsCached(t)
  \/ collectionExistsList(t)
  \/ collectionExistsRefresh(t)
  \/ createIndexes(t)
  \/ insertMany(t)

PollLoop == fetchVideos \/ fetchFailed \/ fetchReturned \/ recordTime \/ sleep

Next == PollLoop \/ \E t \in Tasks : saveVideosToDB(t)

Spec == Init /\ [][Next]_vars

(* ---------------------------- Query Service ---------------------------- *)
defaultLimit == 10
StatusOK == 200
StatusBadRequest == 400
StatusInternalServerError == 500

\* a query parameter as sent: absent/unparsable, or a decimal integer
RawInts(lo, hi) == {[ok |-> FALSE, val |-> 0]} \cup {[ok |-> TRUE, val |-> n] : n \in lo..hi}
Itoa(n) == [ok |-> TRUE, val |-> n]
\* strconv.Atoi with the handler's fallback on error
AtoiOr(raw, fallback) == IF raw.ok THEN raw.val ELSE fallback

Searches == {"", "cat"}
\* $text match of the search words against title and description
TextMatch(v, search) == v % 2 = 1

\* the _ids (positions in insertion order) of the documents the filter selects
Matching(d, search) ==
  {id \in 1..Len(d.docs) : search = "" \/ TextMatch(d.docs[id], search)}

\* variant of SortedOrders without the sort: the store's insertion order
NaturalOrder(d, ids) == {SetToSeq(ids)}

\* SetSort(publishedAt: -1): every order of the selected documents that is
\* descending in publishedAt; the store fixes no order among equal keys
RECURSIVE SortedOrders(_, _)
SortedOrders(d, ids) ==
  IF ids = {} THEN {<<>>}
  ELSE LET newest == {x \in ids : \A y \in ids :
                        PublishedAt(d.docs[x]) >= PublishedAt(d.docs[y])}
       IN UNION {{<<x>> \o o : o \in SortedOrders(d, ids \ {x})} : x \in newest}

\* SetSkip(skip).SetLimit(n) applied to the sorted documents
Cursor(order, skip, n) ==
  IF skip >= Len(order) THEN <<>>
  ELSE SubSeq(order, skip + 1, Min(skip + n, Len(order)))

\* collection.Find fails on a store error, on a negative skip, and on a
\* $text filter when the collection has no text index
FindFails(d, search, skip) ==
  skip < 0 \/ (search # "" /\ "text" \notin d.indexes)

\* the sets of cursor positions whose cursor.Decode may fail in one request
UndecodableRows(cursor) ==
  {B \in SUBSET (1..Len(cursor)) : Cardinality(B) <= MaxUndecodable}

\* the cursor loop of getVideos: k is the cursor position, i the counter of
\* decoded rows, bad the positions whose Decode fails
RECURSIVE getVideosLoop(_, _, _, _, _, _, _)
getVideosLoop(cursor, bad, limit, k, i, next, videos) ==
  IF k > Len(cursor) THEN [next |-> next, videos |-> videos]
  ELSE LET next2 == IF i > limit THEN TRUE ELSE next
       IN IF k \in bad
          THEN getVideosLoop(cursor, bad, limit, k + 1, i, next2, videos)
          ELSE getVideosLoop(cursor, bad, limit, k + 1, i + 1, next2,
                             Append(videos, cursor[k]))

\* a link: the request's URL with the page parameter replaced
Link(page, rawLimit, search) == <<[page |-> Itoa(page), limit |-> rawLimit, search |-> search]>>

nextLink(hasNext, page, rawLimit, search) ==
  IF hasNext THEN Link(page + 1, rawLimit, search) ELSE <<>>

\* variant of prevLink that links back only from a positive page
prevLinkPositive(page, rawLimit, search) ==
  IF page > 0 THEN Link(page - 1, rawLimit, search) ELSE <<>>

prevLink(page, rawLimit, search) ==
  IF page # 0 THEN Link(page - 1, rawLimit, search) ELSE <<>>

errorResponse(code, line, keyword) ==
  [NoResp EXCEPT !.status = code, !.line = line, !.keyword = keyword]

\* variant of unknownKeyword that reports the internal error instead
unknownKeywordInternal(keyword) ==
  errorResponse(StatusInternalServerError, 100, keyword)

\* validateKeyword's answer for a keyword absent after the refresh
unknownKeyword(keyword) ==
  errorResponse(StatusBadRequest, 100, keyword)

\* the page envelope of getVideos
videosResponseMsg(keyword, page, limit, rawLimit, search, cursor, bad) ==
  LET r == getVideosLoop(cursor, bad, limit, 1, 1, FALSE, <<>>)
  IN [status |-> StatusOK, line |-> 179, keyword |-> keyword,
      page |-> page, limit |-> limit, search |-> search,
      result |-> r.videos,
      next |-> nextLink(r.next, page, rawLimit, search),
      prev |-> prevLink(page, rawLimit, search)]

\* a request for /videos/{keyword} arrives
request(h) ==
  /\ handlers[h].pc = "idle"
  /\ \E keyword \in Keywords :
       handlers' = [handlers EXCEPT ![h] =
                      [pc |-> "validate", keyword |-> keyword, collections |-> {},
                       existed |-> keywordExistsIn(keyword, ListCollectionNames(db))]]
  /\ resp' = NoResp
  /\ UNCHANGED <<wvars, sExistingCollections, db, createCalls, existingCollections>>

\* validateKeyword: first lookup in the cache
validateKeywordCached(h) ==
  /\ handlers[h].pc = "validate"
  /\ handlers' = [handlers EXCEPT ![h] =
                    IF keywordExistsIn(handlers[h].keyword, existingCollections)
                    THEN [@ EXCEPT !.pc = "find", !.existed = FALSE]
                    ELSE [@ EXCEPT !.pc = "list"]]
  /\ resp' = NoResp
  /\ UNCHANGED <<wvars, sExistingCollections, db, createCalls, existingCollections>>

\* validateKeyword: ListCollectionNames; an error is answered with internalError
validateKeywordList(h) ==
  /\ handlers[h].pc = "list"
  /\ \E err \in BOOLEAN :
       IF err
       THEN /\ resp' = errorResponse(StatusInternalServerError, 94, handlers[h].keyword)
            /\ handlers' = [handlers EXCEPT ![h] = IdleHandler]
       ELSE /\ resp' = NoResp
            /\ handlers' = [handlers EXCEPT ![h] =
                              [@ EXCEPT !.pc = "refresh", !.collections = ListCollectionNames(db)]]
  /\ UNCHANGED <<wvars, sExistingCollections, db, createCalls, existingCollections>>

\* variant of validateKeywordRefresh that also creates the asked collection
validateKeywordRefreshCreating(h) ==
  /\ handlers[h].pc = "refresh"
  /\ existingCollections' = handlers[h].collections
  /\ handlers' = [handlers EXCEPT ![h] = [@ EXCEPT !.pc = "recheck", !.collections = {}]]
  /\ resp' = NoResp
  /\ db' = IF handlers[h].keyword = SearchTerm THEN [db EXCEPT !.exists = TRUE] ELSE db
  /\ UNCHANGED <<wvars, sExistingCollections, createCalls>>

\* validateKeyword: existingCollections = collections
validateKeywordRefresh(h) ==
  /\ handlers[h].pc = "refresh"
  /\ existingCollections' = handlers[h].collections
  /\ handlers' = [handlers EXCEPT ![h] = [@ EXCEPT !.pc = "recheck", !.collections = {}]]
  /\ resp' = NoResp
  /\ UNCHANGED <<wvars, sExistingCollections, db, createCalls>>

\* validateKeyword: second lookup, in the global cache; 400 when absent
validateKeywordRecheck(h) ==
  /\ handlers[h].pc = "recheck"
  /\ IF keywordExistsIn(handlers[h].keyword, existingCollections)
     THEN /\ resp' = NoResp
          /\ handlers' = [handlers EXCEPT ![h] = [@ EXCEPT !.pc = "find", !.existed = FALSE]]
     ELSE /\ resp' = unknownKeyword(handlers[h].keyword)
          /\ handlers' = [handlers EXCEPT ![h] = IdleHandler]
  /\ UNCHANGED <<wvars, sExistingCollections, db, createCalls, existingCollections>>

\* getVideos after validation: parse page/limit/search, Find, walk the
\* cursor, write the envelope
getVideos(h) ==
  /\ handlers[h].pc = "find"
  /\ \/ resp' = errorResponse(StatusInternalServerError, 139, handlers[h].keyword)
     \/ \E rawPage \in RawInts(-1, MaxPage), rawLimit \in RawInts(0, MaxLimitArg),
           search \in Searches :
          LET keyword == handlers[h].keyword
              page == AtoiOr(rawPage, 0)
              limit == AtoiOr(rawLimit, defaultLimit)
              skip == page * limit
          IN IF FindFails(db, search, skip)
             THEN resp' = errorResponse(StatusInternalServerError, 139, keyword)
             ELSE \E order \in SortedOrders(db, Matching(db, search)) :
                    LET cursor == Cursor(order, skip, limit + 1)
                    IN \E bad \in UndecodableRows(cursor) :
                         resp' = videosResponseMsg(keyword, page, limit, rawLimit,
                                                   search, cursor, bad)
  /\ handlers' = [handlers EXCEPT ![h] = IdleHandler]
  /\ UNCHANGED <<wvars, sExistingCollections, db, createCalls, existingCollections>>

\* one whole saveVideosToDB run of the Ingestor, as the Query Service sees it
\* through the store
persist ==
  \E videos \in Batches, listErr \in BOOLEAN, indexErr \in BOOLEAN, insertErr \in BOOLEAN :
    LET cached == keywordExistsIn(SearchTerm, sExistingCollections)
        collections == ListCollectionNames(db)
        listed == ~cached /\ ~listErr
        collectionPreviouslyExists ==
          cached \/ (listed /\ keywordExistsIn(SearchTerm, collections))
        d1 == IF collectionPreviouslyExists \/ indexErr THEN db ELSE CreateMany(db)
    IN /\ ~insertErr => Len(db.docs) + Cardinality(videos) <= MaxDocs
       /\ sExistingCollections' = IF listed THEN collections ELSE sExistingCollections
       /\ createCalls' = IF collectionPreviouslyExists THEN createCalls
                         ELSE Min(createCalls + 1, MaxCreateCalls)
       /\ db' = IF insertErr THEN d1 ELSE InsertMany(d1, videos)
       /\ resp' = NoResp
       /\ UNCHANGED <<wvars, existingCollections, handlers>>

QueryService(h) ==
  \/ request(h)
  \/ validateKeywordCached(h)
  \/ validateKeywordList(h)
  \/ validateKeywordRefresh(h)
  \/ validateKeywordRecheck(h)
  \/ getVideos(h)

NextQuery == persist \/ \E h \in Handlers : QueryService(h)

SpecQuery == Init /\ [][NextQuery]_vars

(* ------------------------------- claims -------------------------------- *)

\* C1: a failed search call is logged and the cycle proceeds with an empty
\* result: whenever the poll loop leaves the pending call it goes on to
\* record the fetch time; it never crashes.
C1_FetchFailureProceeds == [][(wpc = "await" /\ wpc' # wpc) => wpc' = "record"]_vars

\* C2: a successful response to a request with limit >= 1 carries at most
\* limit documents in result.
C2_AtMostLimit ==
  (resp.status = StatusOK /\ resp.limit >= 1) => Len(resp.result) <= resp.limit

\* the result of one page for a given sort order when every row decodes
PageResult(order, page, limit) ==
  getVideosLoop(Cursor(order, page * limit, limit + 1), {}, limit, 1, 1, FALSE, <<>>).videos

RECURSIVE ConcatPages(_, _, _, _)
ConcatPages(order, limit, page, last) ==
  IF page > last THEN <<>>
  ELSE PageResult(order, page, limit) \o ConcatPages(order, limit, page + 1, last)

\* C3: with the collection left unwritten, the results of pages 0..N for one
\* fixed limit, concatenated, are the stored documents, each exactly once,
\* in descending publishedAt order.
C3_PaginationConsistency ==
  \A limit \in 1..MaxLimitArg :
    \A order \in SortedOrders(db, Matching(db, "")) :
      ConcatPages(order, limit, 0, Len(order)) = order

\* C4: a successful response has a next link iff more than (page+1)*limit
\* documents match the filter at query time; the link carries page+1.
C4_NextIffMore ==
  resp.status = StatusOK =>
    /\ (resp.next # <<>>) <=>
         (Cardinality(Matching(db, resp.search)) > (resp.page + 1) * resp.limit)
    /\ resp.next # <<>> => AtoiOr(resp.next[1].page, 0) = resp.page + 1

\* C5: after any step of any persist task no two documents of the collection
\* share a youtubeId, and an insert that reached the store leaves every item
\* of its batch in the collection.
C5_IdempotentIngestion ==
  [][/\ NoDuplicates(db'.docs)
     /\ \A t \in Tasks :
          (tasks[t].pc = "insert" /\ tasks'[t].pc = "idle" /\ db' # db)
            => tasks[t].videos \subseteq Range(db'.docs)]_vars

\* C6: createIndexes is executed exactly once for the keyword: never more
\* than once, and once as soon as the collection exists.
C6_IndexesCreatedOnce ==
  /\ createCalls <= 1
  /\ db.exists => createCalls = 1

\* C7: no step removes from a known-collections cache a keyword it holds
\* whose collection exists in the store.
C7_RefreshNeverRemoves ==
  [][\A k \in Keywords :
       keywordExistsIn(k, ListCollectionNames(db)) =>
         /\ k \in sExistingCollections => k \in sExistingCollections'
         /\ k \in existingCollections => k \in existingCollections']_vars

\* C8: a request for a keyword without a collection is answered 400 by
\* validateKeyword, or 500 by the failed collection listing; nothing else.
C8_UnknownKeywordIsClientError ==
  (resp.status # 0 /\ ~keywordExistsIn(resp.keyword, ListCollectionNames(db))) =>
    \/ resp.status = StatusBadRequest /\ resp.line = 100
    \/ resp.status = StatusInternalServerError /\ resp.line = 94

\* an unknown keyword is refused while another keyword's collection exists
C8_Witness ==
  /\ resp.status = StatusBadRequest
  /\ resp.keyword = "news"
  /\ db.exists

\* C9: a successful response has a prev link iff page is not 0, whatever the
\* previous page holds; the link carries page-1.
C9_PrevIffNotFirst ==
  resp.status = StatusOK =>
    /\ (resp.prev # <<>>) <=> (resp.page # 0)
    /\ resp.prev # <<>> => AtoiOr(resp.prev[1].page, 0) = resp.page - 1

\* page 2 with limit 1 of a one-document collection: the previous page is
\* empty and the prev link is there
C9_Witness ==
  /\ resp.status = StatusOK
  /\ resp.page = 2 /\ resp.limit = 1
  /\ Len(db.docs) = 1
  /\ resp.result = <<>>
  /\ resp.prev # <<>>

\* C10: the poll loop never blocks: whatever the persist tasks are doing,
\* the loop has a next step to take, so the next fetch comes.
C10_LoopNeverBlocked == ENABLED PollLoop

\* what does hold of the loop: while the process is alive the loop has a
\* next step whatever the persist tasks are doing
LoopIndependentOfTasks == Alive => ENABLED PollLoop

\* C11: every collection that exists carries the three required indexes.
C11_ExistingCollectionIndexed == db.exists => db.indexes = AllIndexes

\* publishedAt of the document with the given _id
PublishedAtOf(id) == PublishedAt(db.docs[id])

\* C12 as stated: page 0 with the default limit is sorted strictly by
\* publishedAt descending.
C12_StrictlyDescending ==
  (resp.status = StatusOK /\ resp.page = 0 /\ resp.limit = defaultLimit) =>
    \A i, j \in 1..Len(resp.result) :
      i < j => PublishedAtOf(resp.result[i]) > PublishedAtOf(resp.result[j])

\* C12 amended: page 0 with the default limit is sorted by publishedAt
\* descending, documents of equal publishedAt in any order.
C12_Descending ==
  (resp.status = StatusOK /\ resp.page = 0 /\ resp.limit = defaultLimit) =>
    \A i, j \in 1..Len(resp.result) :
      i < j => PublishedAtOf(resp.result[i]) >= PublishedAtOf(resp.result[j])

\* page 0 with the default limit returning documents of different publishedAt
C12_Witness ==
  /\ resp.status = StatusOK /\ resp.page = 0 /\ resp.limit = defaultLimit
  /\ Len(resp.result) >= 2
  /\ PublishedAtOf(resp.result[1]) > PublishedAtOf(resp.result[Len(resp.result)])

IsPrefix(s1, s2) == Len(s1) <= Len(s2) /\ \A i \in 1..Len(s1) : s1[i] = s2[i]

\* C13: no step of a request handler changes the store, and no step at all
\* updates or deletes a stored document.
C13_QueryServiceReadOnly ==
  [][/\ handlers' # handlers => db' = db
     /\ IsPrefix(db.docs, db'.docs)]_vars

\* a search request answered from a populated collection
C13_Witness ==
  /\ resp.status = StatusOK
  /\ resp.search # ""
  /\ Len(resp.result) >= 1

\* C14: a step of a persist task, failing or not, leaves the poll loop and
\* the other persist tasks as they are and the process alive.
C14_PersistFailureConfined ==
  [][\A t \in Tasks :
       (tasks[t].pc \in {"list", "create", "insert"} /\ tasks'[t] # tasks[t]) =>
         /\ wpc' = wpc /\ Alive'
         /\ lastFetchedTime' = lastFetchedTime
         /\ \A u \in Tasks \ {t} : tasks'[u] = tasks[u]]_vars

\* index creation has failed (the collection exists without indexes), its
\* task has finished, and a later cycle has launched a persist task of its own
C14_Witness ==
  /\ db.exists /\ db.indexes = {}
  /\ Alive
  /\ \E t \in Tasks :
       /\ tasks[t].pc = "exists"
       /\ \A u \in Tasks \ {t} : tasks[u].pc = "idle"

\* the number of rows the cursor of the answered request returned
CursorLen ==
  LET rest == Cardinality(Matching(db, resp.search)) - resp.page * resp.limit
  IN IF rest <= 0 THEN 0 ELSE Min(rest, resp.limit + 1)

\* C15: a row that fails to decode is skipped alone: the envelope holds the
\* other rows, and a cursor of more than limit rows yields the next link.
C15_DecodeFailureSkipsRow ==
  resp.status = StatusOK =>
    /\ Len(resp.result) >= CursorLen - MaxUndecodable
    /\ CursorLen > resp.limit => resp.next # <<>>

\* the instant t with its fraction of a second dropped
TruncateToSecond(t) == t - (t % TicksPerSecond)

\* C16 as stated: the first call carries the zero time, every later call
\* the time the previous cycle recorded, and the value never decreases.
C16_PublishedAfterIsRecordedTime ==
  [][(wpc = "fetch" /\ wpc' = "await") =>
       /\ issuedAt = -1 => ParseRFC3339(publishedAfter') = 0
       /\ issuedAt # -1 => ParseRFC3339(publishedAfter') = lastFetchedTime
       /\ publishedAfter' >= publishedAfter]_vars

\* C16 amended: every later call carries the recorded time cut to the second.
C16_PublishedAfterIsRecordedSecond ==
  [][(wpc = "fetch" /\ wpc' = "await") =>
       /\ issuedAt = -1 => ParseRFC3339(publishedAfter') = 0
       /\ issuedAt # -1 =>
            ParseRFC3339(publishedAfter') = TruncateToSecond(lastFetchedTime)
       /\ publishedAfter' >= publishedAfter]_vars

\* a later cycle's call in flight whose recorded time had a fraction
C16_Witness ==
  /\ wpc = "await"
  /\ lastFetchedTime % TicksPerSecond # 0
  /\ since = lastFetchedTime
  /\ issuedAt >= lastFetchedTime

\* C17: the published-after time of a cycle is never later than the moment
\* the previous cycle's call was issued.
C17_NoGapBetweenWindows ==
  [][(wpc = "fetch" /\ wpc' = "await" /\ issuedAt # -1) =>
       ParseRFC3339(publishedAfter') <= issuedAt]_vars

\* C18: validateKeyword does not answer 400 for a keyword whose collection
\* existed when the request started.
C18_ExistingKeywordNotRejected ==
  [][\A h \in Handlers :
       (handlers[h].pc = "recheck" /\ handlers[h].existed /\ handlers'[h].pc = "idle")
         => resp'.status # StatusBadRequest]_vars

====
